---- MODULE Spec2Model ----
(***************************************************************************)
(* A model of curlpip (scripts/curlpip.py): the ModuleInstaller class.     *)
(*                                                                         *)
(* The pure functions (version matching, archive location, deduplication)  *)
(* are operators applied by the actions of small harness specifications    *)
(* whose initial states enumerate the inputs.  get_project_json and        *)
(* get_module_recursive are state machines.                                *)
(***************************************************************************)
EXTENDS Integers, Sequences, FiniteSets, TLC

VARIABLES
    call,       \* the arguments of the function under evaluation
    ret,        \* its returned value, NoRet before the call returns
    api_cache,  \* self._api_cache: project name -> cached response
    fpc,        \* position of get_project_json: "idle" or "loop"
    obj,        \* get_project_json's local obj
    count,      \* get_project_json's local count
    requests,   \* get_response calls made by the current get_project_json call
    hops,       \* of which refetches that follow a redirect
    queried,    \* per name: get_project_json calls that went to the index
    calls,      \* per name: get_project_json calls made
    first_ret,  \* per name: the value returned by the first call
    pypi,       \* the index: project name -> the outcome of fetching its metadata
    archives,   \* project name -> the dependencies its archive declares
    installed,  \* the distributions pkg_resources finds installed
    disk,       \* the archive file names present in CACHE_DIR
    modules,    \* start()'s modules, the top-level requests
    mi,         \* index into modules of start()'s for loop
    start_files, \* start()'s local module_files
    stack,      \* the active calls of get_module_recursive, outermost first
    status,     \* "init", "resolving", "done", or how the run ended
    fetched,    \* what the last top-level get_module_recursive returned
    resolved,   \* archive paths download_module has returned in this run
    transfers,  \* per archive file name: curl downloads, over all runs
    run,        \* number of the current run
    run_transfers, \* curl downloads of the current run
    past        \* the modules lists the earlier runs have resolved

fetchvars == <<api_cache, fpc, obj, count, requests, hops, queried, calls, first_ret>>

worldvars == <<pypi, archives, installed>>

runvars == <<disk, modules, mi, start_files, stack, status, fetched, resolved,
             transfers, run, run_transfers, past>>

vars == <<call, ret, fetchvars, worldvars, runvars>>

(***************************************************************************)
(* Values                                                                  *)
(***************************************************************************)

\* Python's None.  A LooseVersion is modelled by its parsed component list,
\* which is never empty for the version strings the parsers accept, so the
\* empty tuple is free to stand for None where a version is expected.
None == <<>>

\* ret is the empty tuple before the call returns and <<value>> afterwards.
NoRet == <<>>

Min(a, b) == IF a < b THEN a ELSE b

Range(s) == {s[i] : i \in 1..Len(s)}

(***************************************************************************)
(* LooseVersion: a version string "1.5" is parsed into the component list  *)
(* <<1, 5>>; comparison is Python's list comparison of the components.     *)
(***************************************************************************)

\* Python list order: the first differing component decides; a proper
\* prefix is smaller.
VersionLt(a, b) ==
    \E i \in 1..(Min(Len(a), Len(b)) + 1) :
        /\ \A j \in 1..(i - 1) : a[j] = b[j]
        /\ \/ i > Len(a) /\ i <= Len(b)
           \/ i <= Len(a) /\ i <= Len(b) /\ a[i] < b[i]

VersionEq(a, b) == a = b

VersionLe(a, b) == VersionLt(a, b) \/ VersionEq(a, b)

(***************************************************************************)
(* compare_version / is_match_version                                      *)
(***************************************************************************)

compare_version_swapped(target_version, require_version, operator) ==
    IF require_version = None THEN TRUE
    ELSE IF operator = "" \/ operator = "==" THEN VersionEq(target_version, require_version)
    ELSE IF operator = "!=" THEN ~VersionEq(target_version, require_version)
    ELSE IF operator = ">=" THEN VersionLt(require_version, target_version)
    ELSE IF operator = ">" THEN VersionLe(require_version, target_version)
    ELSE IF operator = "<=" THEN VersionLe(target_version, require_version)
    ELSE IF operator = "<" THEN VersionLt(target_version, require_version)
    ELSE FALSE

compare_version(target_version, require_version, operator) ==
    IF require_version = None THEN TRUE
    ELSE IF operator = "" \/ operator = "==" THEN VersionEq(target_version, require_version)
    ELSE IF operator = "!=" THEN ~VersionEq(target_version, require_version)
    ELSE IF operator = ">=" THEN VersionLe(require_version, target_version)
    ELSE IF operator = ">" THEN VersionLt(require_version, target_version)
    ELSE IF operator = "<=" THEN VersionLe(target_version, require_version)
    ELSE IF operator = "<" THEN VersionLt(target_version, require_version)
    ELSE FALSE

is_match_version(target_version, version_requirements) ==
    IF version_requirements = <<>> THEN TRUE
    ELSE \A i \in 1..Len(version_requirements) :
            compare_version(target_version,
                            version_requirements[i].version,
                            version_requirements[i].operator)

(***************************************************************************)
(* clean_duplicated_files                                                  *)
(***************************************************************************)

\* clean_loop with the cache.add(fpath) left out
RECURSIVE clean_loop_noadd(_, _, _)
clean_loop_noadd(module_files, cache, result) ==
    IF module_files = <<>> THEN result
    ELSE LET fpath == Head(module_files) IN
         IF fpath \in cache
         THEN clean_loop_noadd(Tail(module_files), cache, result)
         ELSE clean_loop_noadd(Tail(module_files), cache, Append(result, fpath))

RECURSIVE clean_loop(_, _, _)
clean_loop(module_files, cache, result) ==
    IF module_files = <<>> THEN result
    ELSE LET fpath == Head(module_files) IN
         IF fpath \in cache
         THEN clean_loop(Tail(module_files), cache, result)
         ELSE clean_loop(Tail(module_files), cache \cup {fpath}, Append(result, fpath))

clean_duplicated_files(module_files) == clean_loop(module_files, {}, <<>>)

(***************************************************************************)
(* File descriptors of the index and find_module_file                      *)
(***************************************************************************)

\* A file descriptor of the index.  kind names the four shapes of
\* descriptor: a wheel whose tags the running interpreter supports, a wheel
\* it does not support, an sdist tagged "source", an sdist with another tag.
FileKinds == {"whl_ok", "whl_bad", "sdist", "sdist_other"}

FileInfo(name, version, kind) ==
    [url |-> [dir |-> "packages", filename |-> [name |-> name, version |-> version, kind |-> kind]],
     filename |-> [name |-> name, version |-> version, kind |-> kind],
     packagetype |-> IF kind \in {"whl_ok", "whl_bad"} THEN "bdist_wheel" ELSE "sdist",
     python_version |-> CASE kind = "whl_ok" -> "py3"
                          [] kind = "whl_bad" -> "cp27"
                          [] kind = "sdist" -> "source"
                          [] kind = "sdist_other" -> "py3"]

\* The three outcomes of a lookup: no URL (Python's None), a URL, or an
\* exception that leaves the function.
NoUrl == [kind |-> "none"]
Url(u) == [kind |-> "url", url |-> u]
Raise(e) == [kind |-> "raise", exc |-> e]

\* Wheel(fname).supported(): the constructor raises on a file name that is
\* not a wheel file name.
is_supported_wheel(fname) ==
    CASE fname.kind = "whl_ok" -> "True"
      [] fname.kind = "whl_bad" -> "False"
      [] OTHER -> "InvalidWheelFilename"

RECURSIVE find_module_file(_, _)
find_module_file(module_objs, package_type) ==
    IF module_objs = <<>> THEN NoUrl
    ELSE LET file_info == Head(module_objs) IN
         IF file_info.packagetype # package_type
         THEN find_module_file(Tail(module_objs), package_type)
         ELSE IF package_type = "sdist" /\ file_info.python_version = "source"
         THEN Url(file_info.url)
         ELSE CASE is_supported_wheel(file_info.filename) = "True" -> Url(file_info.url)
                [] is_supported_wheel(file_info.filename) = "False" ->
                       find_module_file(Tail(module_objs), package_type)
                [] OTHER -> Raise(is_supported_wheel(file_info.filename))

find_whl(module_objs) == find_module_file(module_objs, "bdist_wheel")

find_source(module_objs) == find_module_file(module_objs, "sdist")

\* The file names find_module_file hands to is_supported_wheel (line 144),
\* in order: those of the descriptors of the wanted package type that are
\* not returned at line 143, up to the one that ends the lookup.
RECURSIVE wheel_checks(_, _)
wheel_checks(module_objs, package_type) ==
    IF module_objs = <<>> THEN <<>>
    ELSE LET file_info == Head(module_objs) IN
         IF file_info.packagetype # package_type
         THEN wheel_checks(Tail(module_objs), package_type)
         ELSE IF package_type = "sdist" /\ file_info.python_version = "source"
         THEN <<>>
         ELSE IF is_supported_wheel(file_info.filename) = "False"
         THEN <<file_info.filename>> \o wheel_checks(Tail(module_objs), package_type)
         ELSE <<file_info.filename>>

(***************************************************************************)
(* get_module_url                                                          *)
(***************************************************************************)

\* sorted(..., reverse=True) on the parsed versions of the release keys
RECURSIVE sort_releases(_)
sort_releases(versions) ==
    IF versions = {} THEN <<>>
    ELSE LET top == CHOOSE v \in versions : \A w \in versions : VersionLe(w, v)
         IN <<top>> \o sort_releases(versions \ {top})

finder(file_type, module_objs) ==
    IF file_type = "whl" THEN find_whl(module_objs) ELSE find_source(module_objs)

\* the for loop of get_url over the sorted releases
RECURSIVE get_url_loop(_, _, _, _)
get_url_loop(sorted, project_obj, module, file_type) ==
    IF sorted = <<>> THEN NoUrl
    ELSE LET version == Head(sorted)
             url == finder(file_type, project_obj.releases[version])
         IN IF ~is_match_version(version, module.version_requirements)
            THEN get_url_loop(Tail(sorted), project_obj, module, file_type)
            ELSE IF url # NoUrl THEN url
            ELSE get_url_loop(Tail(sorted), project_obj, module, file_type)

\* get_url without the search of project_obj['urls']
get_url_no_flat_list(project_obj, module, file_type) ==
    LET latest_version == project_obj.info.version
        first == IF is_match_version(latest_version, module.version_requirements)
                 THEN finder(file_type, project_obj.releases[latest_version])
                 ELSE NoUrl
    IN IF first # NoUrl THEN first
       ELSE get_url_loop(sort_releases(DOMAIN project_obj.releases),
                         project_obj, module, file_type)

get_url(project_obj, module, file_type) ==
    LET latest_version == project_obj.info.version
        first == IF is_match_version(latest_version, module.version_requirements)
                 THEN finder(file_type, project_obj.releases[latest_version])
                 ELSE NoUrl
        flat == finder(file_type, project_obj.urls)
    IN IF first # NoUrl THEN first
       ELSE IF flat # NoUrl THEN flat
       ELSE get_url_loop(sort_releases(DOMAIN project_obj.releases),
                         project_obj, module, file_type)

\* get_project_json's "no metadata" result
NullProject == [null |-> TRUE]

\* get_module_url from the fetched project on: sys.exit(1) on no metadata,
\* else the wheel URL, else the source URL.
get_module_url(project, module) ==
    IF project = NullProject THEN [kind |-> "exit"]
    ELSE LET whl_url == get_url(project, module, "whl")
         IN IF whl_url # NoUrl THEN whl_url
            ELSE get_url(project, module, "source")

(***************************************************************************)
(* get_project_json                                                        *)
(***************************************************************************)

Names == {"a", "b", "c"}

max_count == 20

\* What one get_response call can bring back, by the shape of the text:
\*   doc             the JSON object of a project
\*   text301         text that is not JSON and holds "/pypi/<name>/json;"
\*   json301         a JSON object with code '301 Moved Permanently' whose
\*                   message holds "/pypi/<name>/json;"
\*   json301_nopath  such an object whose message does not hold the path
\*   garbage         text that is not JSON and holds no path
\*   nondict         JSON that is not an object
Responses == {"doc", "text301", "json301", "json301_nopath", "garbage", "nondict"}

\* self._301_filter.search(text) on a raw response
has_301_path(text) == text \in {"text301", "json301"}

\* json.loads, or the text itself when it is not JSON
text2json(text) ==
    [type |-> CASE text \in {"doc", "json301", "json301_nopath"} -> "dict"
                [] text \in {"text301", "garbage"} -> "str"
                [] OTHER -> "other",
     body |-> text]

check_301_text(o) == o.type = "str" /\ has_301_path(o.body)

check_301_json(o) == o.type = "dict" /\ o.body \in {"json301", "json301_nopath"}

\* self._301_filter.search(obj['message'])
message_has_301_path(o) == o.body = "json301"

NotCached == [cached |-> FALSE]

NoObj == [type |-> "none", body |-> "none"]

\* response = obj if type(obj) == dict else None
response_of(o) == IF o.type = "dict" THEN o ELSE NullProject

\* self._api_cache[project] = response, skipped for a None response
store_unless_null(cache, project, response) ==
    IF response = NullProject THEN cache ELSE [cache EXCEPT ![project] = response]

\* self._api_cache[project] = response
store(cache, project, response) == [cache EXCEPT ![project] = response]

MaxCalls == 2       \* the per-name call counters stop counting here

Bump(n) == IF n < MaxCalls THEN n + 1 ELSE n

FetchIdle ==
    /\ api_cache = [n \in Names |-> NotCached]
    /\ fpc = "idle"
    /\ obj = NoObj
    /\ count = 0
    /\ requests = 0
    /\ hops = 0
    /\ queried = [n \in Names |-> 0]
    /\ calls = [n \in Names |-> 0]
    /\ first_ret = [n \in Names |-> NotCached]

\* The resolver at rest, for the specifications that do not run it.
ResolveIdle ==
    /\ pypi = [n \in Names |-> NullProject]
    /\ archives = [n \in Names |-> <<>>]
    /\ installed = {}
    /\ disk = {}
    /\ modules = <<>>
    /\ mi = 1
    /\ start_files = <<>>
    /\ stack = <<>>
    /\ status = "init"
    /\ fetched = NoRet
    /\ resolved = {}
    /\ transfers = <<>>
    /\ run = 1
    /\ run_transfers = 0
    /\ past = {}

InitFetch ==
    /\ FetchIdle
    /\ ResolveIdle
    /\ call = [project |-> "a"]
    /\ ret = NoRet

\* lines 181-182: the project is in the cache
GetProjectJsonCached(project) ==
    /\ fpc = "idle"
    /\ api_cache[project] # NotCached
    /\ call' = [project |-> project]
    /\ ret' = <<api_cache[project]>>
    /\ requests' = 0
    /\ hops' = 0
    /\ count' = 0
    /\ obj' = NoObj
    /\ calls' = [calls EXCEPT ![project] = Bump(@)]
    /\ UNCHANGED <<api_cache, fpc, queried, first_ret, worldvars, runvars>>

\* lines 213-217: the first request and the fix_301_text before the loop
GetProjectJsonStart(project) ==
    /\ fpc = "idle"
    /\ api_cache[project] = NotCached
    /\ call' = [project |-> project]
    /\ ret' = NoRet
    /\ count' = 0
    /\ \E text \in Responses :
          IF has_301_path(text)
          THEN \E text2 \in Responses :
                  /\ obj' = text2json(text2)
                  /\ requests' = 2
                  /\ hops' = 1
          ELSE /\ obj' = text2json(text)
               /\ requests' = 1
               /\ hops' = 0
    /\ fpc' = "loop"
    /\ queried' = [queried EXCEPT ![project] = Bump(@)]
    /\ calls' = [calls EXCEPT ![project] = Bump(@)]
    /\ UNCHANGED <<api_cache, first_ret, worldvars, runvars>>

\* lines 219-223: one iteration that follows a text redirect
LoopFix301Text ==
    /\ fpc = "loop"
    /\ count < max_count
    /\ check_301_text(obj)
    /\ \E text \in Responses : obj' = text2json(text)
    /\ requests' = requests + 1
    /\ hops' = hops + 1
    /\ count' = count + 1
    /\ UNCHANGED <<call, ret, api_cache, fpc, queried, calls, first_ret, worldvars, runvars>>

\* lines 224-227: one iteration on a JSON redirect (fix_301_json)
LoopFix301Json ==
    /\ fpc = "loop"
    /\ count < max_count
    /\ ~check_301_text(obj)
    /\ check_301_json(obj)
    /\ IF message_has_301_path(obj)
       THEN /\ \E text \in Responses : obj' = text2json(text)
            /\ requests' = requests + 1
            /\ hops' = hops + 1
       ELSE UNCHANGED <<obj, requests, hops>>
    /\ count' = count + 1
    /\ UNCHANGED <<call, ret, api_cache, fpc, queried, calls, first_ret, worldvars, runvars>>

\* lines 228-232: the loop is left; the response is cached and returned
GetProjectJsonReturn ==
    /\ fpc = "loop"
    /\ \/ count >= max_count
       \/ ~check_301_text(obj) /\ ~check_301_json(obj)
    /\ api_cache' = store(api_cache, call.project, response_of(obj))
    /\ ret' = <<response_of(obj)>>
    /\ first_ret' = IF first_ret[call.project] = NotCached
                    THEN [first_ret EXCEPT ![call.project] = response_of(obj)]
                    ELSE first_ret
    /\ fpc' = "idle"
    /\ UNCHANGED <<call, obj, count, requests, hops, queried, calls, worldvars, runvars>>

NextFetch ==
    \/ \E project \in Names : GetProjectJsonCached(project)
    \/ \E project \in Names : GetProjectJsonStart(project)
    \/ LoopFix301Text
    \/ LoopFix301Json
    \/ GetProjectJsonReturn

SpecFetch == InitFetch /\ [][NextFetch]_vars

(***************************************************************************)
(* start, get_module_recursive, download_module                            *)
(*                                                                         *)
(* The recursion is an explicit stack of frames, one action per call and   *)
(* per return.  The index and the archives' contents are fixed per world.  *)
(* Of start() the tool checks are one choice (Start or StartFail); the pip *)
(* upgrade, the skip counter (it only selects a message) and the calls of  *)
(* the installer are left out.  curl -o is taken to write its file.  The   *)
(* interpreter's recursion limit is MaxStack: the call that would exceed   *)
(* it ends the run with RecursionError.                                    *)
(***************************************************************************)

MaxStack == 4       \* nested get_module_recursive calls the interpreter allows
MaxRuns == 2        \* runs of the program against the same CACHE_DIR

\* InstallModule(name): a request without constraints
Request(name) == [name |-> name, version_requirements |-> <<>>]

\* a dependency line dep2module could not parse (None in deps)
NoDep == [nodep |-> TRUE]

\* url.split('/')[-1]
fname_of(url) == url.filename

\* os.path.join(CACHE_DIR, fname)
fpath_of(fname) == [dir |-> "cache", filename |-> fname]

\* download_module without the os.path.isfile test
must_download_always(files_on_disk, fname) == TRUE

\* os.path.isfile(fpath): the download is needed
must_download(files_on_disk, fname) == fname \notin files_on_disk

\* is_already_installed: fname is "<name>-<version>-..."
is_already_installed(fname) == [name |-> fname.name, version |-> fname.version] \in installed

check_all_module_files_installed(files) ==
    \A i \in 1..Len(files) : is_already_installed(files[i].filename)

\* module_files.sort(key=lambda e:e[1]): a stable sort, ascending by depth
RECURSIVE sort_from(_, _)
sort_from(files, depth) ==
    IF depth > 0 THEN <<>>
    ELSE SelectSeq(files, LAMBDA e : e[2] = depth) \o sort_from(files, depth + 1)

\* get_module_recursive with the sort left out
sort_by_depth_missing(files) == files

sort_by_depth(files) ==
    IF files = <<>> THEN <<>>
    ELSE sort_from(files, CHOOSE d \in {files[i][2] : i \in 1..Len(files)} :
                              \A i \in 1..Len(files) : d <= files[i][2])

\* [e[0] for e in module_files]
paths_of(files) == [i \in 1..Len(files) |-> files[i][1]]

\* get_project_json as get_module_url sees it: the cached value, or what
\* the redirect loop makes of the index's answers for this name.
project_json(name) == IF api_cache[name] # NotCached THEN api_cache[name] ELSE pypi[name]

\* The call get_module_recursive(module, depth) up to its for loop (lines
\* 441-446, with download_module and get_dependencies), entered with st as
\* the stack of the callers.  top is <<files>> when this was a top-level
\* call that has already returned files.
Enter(module, depth, st) ==
    LET project == project_json(module.name)
        url == get_module_url(project, module)
        fname == fname_of(url.url)
        fpath == fpath_of(fname)
        download == must_download(disk, fname)
        same == [api_cache |-> api_cache, disk |-> disk, transfers |-> transfers,
                 run_transfers |-> run_transfers, resolved |-> resolved,
                 stack |-> st, status |-> status, top |-> NoRet]
        looked == [same EXCEPT !.api_cache = IF api_cache[module.name] # NotCached
                                             THEN api_cache
                                             ELSE store(api_cache, module.name, project)]
    IN IF Len(st) >= MaxStack THEN [same EXCEPT !.status = "RecursionError"]
       ELSE CASE url.kind = "exit" -> [looked EXCEPT !.status = "exit_api"]
              [] url.kind = "raise" -> [looked EXCEPT !.status = url.exc]
              [] url.kind = "none" ->
                    IF st = <<>> THEN [looked EXCEPT !.top = <<(<<>>)>>] ELSE looked
              [] url.kind = "url" ->
                    [looked EXCEPT
                        !.disk = IF download THEN disk \cup {fname} ELSE disk,
                        !.transfers = IF download
                                      THEN [transfers EXCEPT ![fname] = Bump(@)]
                                      ELSE transfers,
                        !.run_transfers = IF download THEN run_transfers + 1 ELSE run_transfers,
                        !.resolved = resolved \cup {fpath},
                        !.stack = Append(st, [module |-> module, depth |-> depth,
                                              deps |-> archives[fname.name],
                                              module_files |-> <<(<<fpath, depth>>)>>])]

\* lines 567-572 of start(): the files of one top-level request
TopResult(module, files) ==
    /\ fetched' = <<[module |-> module, files |-> files]>>
    /\ start_files' = IF check_all_module_files_installed(files)
                      THEN start_files
                      ELSE start_files \o files
    /\ mi' = mi + 1

Apply(module, out) ==
    /\ api_cache' = out.api_cache
    /\ disk' = out.disk
    /\ transfers' = out.transfers
    /\ run_transfers' = out.run_transfers
    /\ resolved' = out.resolved
    /\ stack' = out.stack
    /\ status' = out.status
    /\ IF out.top # NoRet
       THEN TopResult(module, out.top[1])
       ELSE UNCHANGED <<fetched, start_files, mi>>

memovars == <<call, ret, fpc, obj, count, requests, hops, queried, calls, first_ret>>

\* The dependency lists an archive can declare: none, one project, two
\* different projects, or an unparsable line and then "c".
DepLists ==
    {<<>>} \cup {<<Request(x)>> : x \in Names}
           \cup {d \in {<<Request(x), Request(y)>> : x \in Names, y \in Names} : d[1] # d[2]}
           \cup {<<NoDep, Request("c")>>}

\* The worlds: every project is unknown to the index, or has one release
\* "1" with a supported wheel, or one whose only wheel is unsupported.
Worlds ==
    {w \in [index : [Names -> UNION {{NullProject,
                                       [info |-> [version |-> <<1>>],
                                        releases |-> (<<1>> :> <<FileInfo(n, <<1>>, k)>>),
                                        urls |-> <<FileInfo(n, <<1>>, k)>>]} :
                                      n \in Names, k \in {"whl_ok", "whl_bad"}}],
              requires : [Names -> DepLists]] :
        \A n \in Names :
            /\ w.index[n] # NullProject => w.index[n].urls[1].filename.name = n
            /\ get_module_url(w.index[n], Request(n)).kind # "url" => w.requires[n] = <<>>}

TopLevel == {<<Request("a")>>, <<Request("b"), Request("a")>>}

FileNames == {FileInfo(n, <<1>>, "whl_ok").filename : n \in Names}

InitResolve ==
    /\ FetchIdle
    /\ call = <<>>
    /\ ret = NoRet
    /\ \E w \in Worlds : pypi = w.index /\ archives = w.requires
    /\ installed \in {{}, {[name |-> "b", version |-> <<1>>]}}
    /\ disk = {}
    /\ modules \in TopLevel
    /\ mi = 1
    /\ start_files = <<>>
    /\ stack = <<>>
    /\ status = "init"
    /\ fetched = NoRet
    /\ resolved = {}
    /\ transfers = [f \in FileNames |-> 0]
    /\ run = 1
    /\ run_transfers = 0
    /\ past = {}

\* lines 539-559: the tools are there
Start ==
    /\ status = "init"
    /\ status' = "resolving"
    /\ UNCHANGED <<memovars, api_cache, worldvars, disk, modules, mi, start_files, stack,
                   fetched, resolved, transfers, run, run_transfers, past>>

\* lines 539-557: pip, curl or the pip module is missing
StartFail ==
    /\ status = "init"
    /\ status' = "exit_precondition"
    /\ UNCHANGED <<memovars, api_cache, worldvars, disk, modules, mi, start_files, stack,
                   fetched, resolved, transfers, run, run_transfers, past>>

\* line 567: get_module_recursive(module) for the next top-level request
TopCall ==
    /\ status = "resolving"
    /\ stack = <<>>
    /\ mi <= Len(modules)
    /\ Apply(modules[mi], Enter(modules[mi], 0, <<>>))
    /\ UNCHANGED <<memovars, worldvars, modules, run, past>>

\* lines 447-453: the next dep of the innermost call
DepCall ==
    /\ status = "resolving"
    /\ stack # <<>>
    /\ stack[Len(stack)].deps # <<>>
    /\ LET frame == stack[Len(stack)]
           dep == Head(frame.deps)
           st == [stack EXCEPT ![Len(stack)].deps = Tail(frame.deps)]
       IN IF dep = NoDep
          THEN /\ stack' = st
               /\ UNCHANGED <<api_cache, disk, transfers, run_transfers, resolved, status,
                              fetched, start_files, mi>>
          ELSE Apply(dep, Enter(dep, frame.depth - 1, st))
    /\ UNCHANGED <<memovars, worldvars, modules, run, past>>

\* lines 454-456: a call at depth < 0 returns its files to its caller
Return ==
    /\ status = "resolving"
    /\ stack # <<>>
    /\ stack[Len(stack)].deps = <<>>
    /\ stack[Len(stack)].depth < 0
    /\ stack' = [SubSeq(stack, 1, Len(stack) - 1) EXCEPT ![Len(stack) - 1].module_files =
                    @ \o stack[Len(stack)].module_files]
    /\ UNCHANGED <<memovars, api_cache, worldvars, disk, modules, mi, start_files, status,
                   fetched, resolved, transfers, run, run_transfers, past>>

\* lines 457-458 and 568-572: the call at depth 0 sorts, deduplicates and
\* returns to start()
TopReturn ==
    /\ status = "resolving"
    /\ stack # <<>>
    /\ stack[Len(stack)].deps = <<>>
    /\ ~(stack[Len(stack)].depth < 0)
    /\ stack' = SubSeq(stack, 1, Len(stack) - 1)
    /\ TopResult(stack[Len(stack)].module,
                 clean_duplicated_files(paths_of(sort_by_depth(stack[Len(stack)].module_files))))
    /\ UNCHANGED <<memovars, api_cache, worldvars, disk, modules, status,
                   resolved, transfers, run, run_transfers, past>>

\* lines 574-591: the for loop is over
Finish ==
    /\ status = "resolving"
    /\ stack = <<>>
    /\ mi > Len(modules)
    /\ IF start_files = <<>>
       THEN status' = "exit_nofiles" /\ UNCHANGED start_files
       ELSE status' = "done" /\ start_files' = clean_duplicated_files(start_files)
    /\ UNCHANGED <<memovars, api_cache, worldvars, disk, modules, mi, stack,
                   fetched, resolved, transfers, run, run_transfers, past>>

\* the program is run again: a new process, the same CACHE_DIR
NewRun ==
    /\ status \notin {"init", "resolving"}
    /\ run < MaxRuns
    /\ run' = run + 1
    /\ past' = IF status = "exit_precondition" THEN past ELSE past \cup {modules}
    /\ modules' \in TopLevel
    /\ api_cache' = [n \in Names |-> NotCached]
    /\ mi' = 1
    /\ start_files' = <<>>
    /\ stack' = <<>>
    /\ status' = "init"
    /\ fetched' = NoRet
    /\ resolved' = {}
    /\ run_transfers' = 0
    /\ UNCHANGED <<memovars, worldvars, disk, transfers>>

NextResolve ==
    \/ Start
    \/ StartFail
    \/ TopCall
    \/ DepCall
    \/ Return
    \/ TopReturn
    \/ Finish
    \/ NewRun

SpecResolve == InitResolve /\ [][NextResolve]_vars

(***************************************************************************)
(* Bounds of the harness inputs                                            *)
(***************************************************************************)

MaxReqs == 2        \* constraints per request
MaxFiles == 4       \* length of a list handed to clean_duplicated_files

SeqsUpTo(S, n) == UNION {[1..k -> S] : k \in 0..n}

\* The version strings "1", "1.5", "1.10" and "2", parsed.
Versions == {<<1>>, <<1, 5>>, <<1, 10>>, <<2>>}

\* The six operators of compare_version.
Operators == {"==", "!=", ">=", ">", "<=", "<"}

\* What the operator pattern ([<>=!]+) of the dependency parsers can also
\* capture: a token compare_version does not know.
UnknownOperators == {"=>"}

VersionRequirements == [version : Versions, operator : Operators \cup UnknownOperators]

Paths == {"p1", "p2", "p3"}

(***************************************************************************)
(* Harness: is_match_version                                               *)
(***************************************************************************)

InitMatch ==
    /\ FetchIdle
    /\ ResolveIdle
    /\ call \in [target_version : Versions,
                 version_requirements : SeqsUpTo(VersionRequirements, MaxReqs)]
    /\ ret = NoRet

CallMatch ==
    /\ ret = NoRet
    /\ ret' = <<is_match_version(call.target_version, call.version_requirements)>>
    /\ UNCHANGED <<call, fetchvars, worldvars, runvars>>

NextMatch == CallMatch

SpecMatch == InitMatch /\ [][NextMatch]_vars

(***************************************************************************)
(* Harness: clean_duplicated_files, applied to an input list and then to   *)
(* its own output                                                          *)
(***************************************************************************)

InitDedup ==
    /\ FetchIdle
    /\ ResolveIdle
    /\ \E files \in SeqsUpTo(Paths, MaxFiles) :
          call = [input |-> files, module_files |-> files, again |-> FALSE]
    /\ ret = NoRet

CallDedup ==
    /\ ret = NoRet
    /\ ret' = <<clean_duplicated_files(call.module_files)>>
    /\ UNCHANGED <<call, fetchvars, worldvars, runvars>>

CallDedupAgain ==
    /\ ret # NoRet
    /\ ~call.again
    /\ call' = [call EXCEPT !.module_files = ret[1], !.again = TRUE]
    /\ ret' = <<clean_duplicated_files(ret[1])>>
    /\ UNCHANGED <<fetchvars, worldvars, runvars>>

NextDedup == CallDedup \/ CallDedupAgain

SpecDedup == InitDedup /\ [][NextDedup]_vars

(***************************************************************************)
(* Harness: get_module_url on a fetched project                            *)
(***************************************************************************)

\* The releases of the harness project: "1.5", "1.10" and "2".
ReleaseVersions == {<<1, 5>>, <<1, 10>>, <<2>>}

\* The file lists a release can have.
ReleaseFiles(name, version) ==
    {<<>>} \cup {<<FileInfo(name, version, k)>> : k \in FileKinds}
           \cup {<<FileInfo(name, version, "whl_bad"), FileInfo(name, version, "whl_ok")>>}

\* Project metadata as the index serves it: `urls` lists the files of the
\* release named by info.version.
Projects(name) ==
    {[info |-> [version |-> latest], releases |-> releases, urls |-> releases[latest]] :
        latest \in ReleaseVersions,
        releases \in {r \in [ReleaseVersions -> UNION {ReleaseFiles(name, v) : v \in ReleaseVersions}] :
                         \A v \in ReleaseVersions : r[v] \in ReleaseFiles(name, v)}}

\* Requests with no constraint, one constraint, or a range ">= lo, < hi".
Requests(name) ==
    {[name |-> name, version_requirements |-> reqs] :
        reqs \in {<<>>} \cup {<<r>> : r \in VersionRequirements}
                 \cup {<<[version |-> lo, operator |-> ">="], [version |-> hi, operator |-> "<"]>> :
                           lo \in Versions, hi \in Versions}}

InitUrl ==
    /\ FetchIdle
    /\ ResolveIdle
    /\ call \in [project : Projects("a"), module : Requests("a")]
    /\ ret = NoRet

CallUrl ==
    /\ ret = NoRet
    /\ ret' = <<get_module_url(call.project, call.module)>>
    /\ UNCHANGED <<call, fetchvars, worldvars, runvars>>

NextUrl == CallUrl

SpecUrl == InitUrl /\ [][NextUrl]_vars

(***************************************************************************)
(* Harness: find_source on the file list of a release                      *)
(***************************************************************************)

\* The descriptors of project "a" over its releases.
Descriptors == {FileInfo("a", v, k) : v \in ReleaseVersions, k \in FileKinds}

\* File lists of at most two descriptors.
DescriptorLists ==
    {<<>>} \cup {<<x>> : x \in Descriptors} \cup {<<x, y>> : x \in Descriptors, y \in Descriptors}

InitFind ==
    /\ FetchIdle
    /\ ResolveIdle
    /\ call \in [module_objs : DescriptorLists]
    /\ ret = NoRet

CallFindSource ==
    /\ ret = NoRet
    /\ ret' = <<find_source(call.module_objs)>>
    /\ UNCHANGED <<call, fetchvars, worldvars, runvars>>

NextFind == CallFindSource

SpecFind == InitFind /\ [][NextFind]_vars

(***************************************************************************)
(* C8                                                                      *)
(***************************************************************************)

\* One operator applied directly to the two versions.
OperatorHolds(v, req) ==
    CASE req.operator = "==" -> v = req.version
      [] req.operator = "!=" -> v # req.version
      [] req.operator = ">=" -> ~VersionLt(v, req.version)
      [] req.operator = ">"  -> VersionLt(req.version, v)
      [] req.operator = "<=" -> ~VersionLt(req.version, v)
      [] req.operator = "<"  -> VersionLt(v, req.version)

KnownOperators(reqs) == \A i \in 1..Len(reqs) : reqs[i].operator \in Operators

\* C8: for every candidate version v and every constraint sequence C over
\* the six operators, is_match_version(v, C) is the conjunction over C of the
\* single operator evaluations of v against each constraint's version, and
\* is_match_version(v, []) is true.
C8_MatchIsConjunction ==
    (ret # NoRet /\ KnownOperators(call.version_requirements)) =>
        /\ ret[1] = (\A i \in 1..Len(call.version_requirements) :
                        OperatorHolds(call.target_version, call.version_requirements[i]))
        /\ (call.version_requirements = <<>> => ret[1] = TRUE)

\* a request ">= r1, < r2" whose first constraint holds and whose second
\* fails has been evaluated
C8_Witness ==
    /\ ret = <<FALSE>>
    /\ Len(call.version_requirements) = 2
    /\ call.version_requirements[1].operator = ">="
    /\ call.version_requirements[2].operator = "<"
    /\ OperatorHolds(call.target_version, call.version_requirements[1])
    /\ ~OperatorHolds(call.target_version, call.version_requirements[2])

(***************************************************************************)
(* C9                                                                      *)
(***************************************************************************)

FirstIndex(s, x) == CHOOSE i \in 1..Len(s) : s[i] = x /\ \A j \in 1..(i - 1) : s[j] # x

\* C9: the output of clean_duplicated_files holds every path of the input
\* exactly once, ordered by the paths' first occurrences in the input, and
\* clean_duplicated_files maps its own output to itself.
C9_DedupFirstWinsIdempotent ==
    ret # NoRet =>
        /\ Range(ret[1]) = Range(call.input)
        /\ \A i, j \in 1..Len(ret[1]) : i # j => ret[1][i] # ret[1][j]
        /\ \A i, j \in 1..Len(ret[1]) :
              i < j => FirstIndex(call.input, ret[1][i]) < FirstIndex(call.input, ret[1][j])
        /\ (call.again => ret[1] = call.module_files)

\* the second application has run on the output of <<p2, p1, p2, p1>>
C9_Witness ==
    /\ ret = <<(<<"p2", "p1">>)>>
    /\ call.again
    /\ call.input = <<"p2", "p1", "p2", "p1">>

(***************************************************************************)
(* C3                                                                      *)
(***************************************************************************)

\* a release has a file get_module_url can return
HasCompatibleFile(files) ==
    \E i \in 1..Len(files) :
        \/ files[i].packagetype = "bdist_wheel" /\ is_supported_wheel(files[i].filename) = "True"
        \/ files[i].packagetype = "sdist" /\ files[i].python_version = "source"

Candidates(project, module) ==
    {v \in DOMAIN project.releases :
        /\ is_match_version(v, module.version_requirements)
        /\ HasCompatibleFile(project.releases[v])}

\* C3: when the latest version fails the request's constraints, a URL
\* returned by get_module_url is a file of the highest release that
\* satisfies every constraint and has a compatible file; it is never a file
\* of a version that violates the constraints.
C3_FallbackHonoursConstraints ==
    (/\ ret # NoRet
     /\ ret[1].kind = "url"
     /\ KnownOperators(call.module.version_requirements)
     /\ ~is_match_version(call.project.info.version, call.module.version_requirements)) =>
        /\ is_match_version(ret[1].url.filename.version, call.module.version_requirements)
        /\ ret[1].url.filename.version \in Candidates(call.project, call.module)
        /\ \A v \in Candidates(call.project, call.module) :
               VersionLe(v, ret[1].url.filename.version)

(***************************************************************************)
(* C4, C5, C6                                                              *)
(***************************************************************************)

\* C4: get_project_json follows at most 20 redirect hops, and a call whose
\* last response is a project document returns that document.
C4_AtMostTwentyHops ==
    /\ hops <= max_count
    /\ (fpc = "idle" /\ ret # NoRet /\ obj.body = "doc") => ret[1] = obj

RedirectPayloads == {text2json("json301"), text2json("json301_nopath")}

\* C5: a redirect payload is never returned or cached as project metadata;
\* a call that ends with the bound used up returns null and caches null.
C5_RedirectNeverMetadata ==
    /\ \A n \in Names : api_cache[n] \notin RedirectPayloads
    /\ (fpc = "idle" /\ ret # NoRet) => ret[1] \notin RedirectPayloads
    /\ (fpc = "idle" /\ ret # NoRet /\ count = max_count /\
          (check_301_text(obj) \/ check_301_json(obj))) =>
            (ret[1] = NullProject /\ api_cache[call.project] = NullProject)

\* C6: every call of get_project_json for a name returns what the first
\* call for that name returned, only the first goes to the index, a later
\* call issues no request, and a written cache entry keeps its value.
C6_CachedForTheRun ==
    /\ \A n \in Names : queried[n] <= 1
    /\ \A n \in Names : api_cache[n] = first_ret[n]
    /\ (fpc = "idle" /\ ret # NoRet) =>
          /\ ret[1] = first_ret[call.project]
          /\ calls[call.project] >= 2 => requests = 0

\* a second call for a name whose first fetch failed has returned the
\* cached null
C6_Witness ==
    /\ fpc = "idle"
    /\ ret = <<NullProject>>
    /\ calls[call.project] = 2
    /\ queried[call.project] = 1
    /\ requests = 0
    /\ api_cache[call.project] = NullProject

(***************************************************************************)
(* The dependency graph of a world                                         *)
(***************************************************************************)

Resolvable(n) == get_module_url(pypi[n], Request(n)).kind = "url"

DepsOf(n) ==
    IF Resolvable(n)
    THEN {archives[n][i].name : i \in {j \in 1..Len(archives[n]) : archives[n][j] # NoDep}}
    ELSE {}

RECURSIVE ReachSet(_, _)
ReachSet(S, k) == IF k = 0 THEN S ELSE ReachSet(S \cup UNION {DepsOf(n) : n \in S}, k - 1)

Reach(n) == ReachSet({n}, Cardinality(Names))

OnCycle(n) == n \in ReachSet(DepsOf(n), Cardinality(Names))

Acyclic(n) == \A m \in Reach(n) : ~OnCycle(m)

AllResolvable(n) == \A m \in Reach(n) : Resolvable(m)

\* the number of edges of the longest path from x to y, in an acyclic graph
RECURSIVE Longest(_, _)
Longest(x, y) ==
    IF x = y THEN 0
    ELSE LET via == {1 + Longest(d, y) : d \in {e \in DepsOf(x) : y \in Reach(e)}}
         IN IF via = {} THEN 0 - 1 ELSE CHOOSE l \in via : \A k \in via : k <= l

Position(files, n) == CHOOSE i \in 1..Len(files) : files[i].filename.name = n

(***************************************************************************)
(* C1                                                                      *)
(***************************************************************************)

\* C1: on an acyclic graph whose packages are all resolvable the top-level
\* call returns, and what it returns lists the archive of every reachable
\* package once, in non-decreasing depth (the depth of an archive being minus
\* the longest path to it), each dependency before every archive that
\* depends on it.
C1_DependenciesFirst ==
    /\ status \in {"exit_api", "RecursionError"} =>
          ~(Acyclic(modules[mi].name) /\ AllResolvable(modules[mi].name))
    /\ fetched # NoRet =>
          LET root == fetched[1].module.name
              files == fetched[1].files
          IN (Acyclic(root) /\ AllResolvable(root)) =>
                /\ {files[i].filename.name : i \in 1..Len(files)} = Reach(root)
                /\ \A i, j \in 1..Len(files) : i # j => files[i] # files[j]
                /\ \A i, j \in 1..Len(files) :
                      i < j => Longest(root, files[i].filename.name) >=
                               Longest(root, files[j].filename.name)
                /\ \A x \in Reach(root) : \A y \in DepsOf(x) :
                      Position(files, y) < Position(files, x)

\* the diamond a -> b, a -> c, b -> c has been resolved: c is reached at
\* depth -1 and at depth -2
C1_Witness ==
    /\ fetched # NoRet
    /\ fetched[1].module = Request("a")
    /\ archives["a"] = <<Request("c"), Request("b")>>
    /\ archives["b"] = <<Request("c")>>
    /\ archives["c"] = <<>>
    /\ AllResolvable("a")
    /\ Len(fetched[1].files) = 3
    /\ fetched[1].files[1].filename.name = "c"

(***************************************************************************)
(* C2                                                                      *)
(***************************************************************************)

\* C2: the run is ended by sys.exit only when a startup precondition fails
\* or when no file at all was resolved for the requests; a package that
\* cannot be resolved does not end it.
C2_UnresolvableNotFatal ==
    status \in {"exit_precondition", "exit_api", "exit_nofiles"} =>
        \/ status = "exit_precondition"
        \/ status = "exit_nofiles" /\ resolved = {}

(***************************************************************************)
(* C7                                                                      *)
(***************************************************************************)

\* C7: over all runs every archive file name is downloaded at most once,
\* and a run that resolves requests an earlier run has resolved downloads
\* nothing.
C7_NoRedownload ==
    /\ \A f \in FileNames : transfers[f] <= 1
    /\ modules \in past => run_transfers = 0

\* a second run of the same requests has finished with its archives taken
\* from the cache, one of them reached twice in the graph
C7_Witness ==
    /\ run = 2
    /\ modules \in past
    /\ status = "done"
    /\ run_transfers = 0
    /\ Cardinality(resolved) = 3
    /\ archives["a"] = <<Request("b"), Request("c")>>
    /\ archives["b"] = <<Request("c")>>
    /\ \A f \in FileNames : transfers[f] = 1

(***************************************************************************)
(* C10                                                                     *)
(***************************************************************************)

\* C10: a top-level get_module_recursive call returns if and only if the
\* graph reachable from its request is acyclic: a call that has returned had
\* an acyclic graph, and a call that ended without returning had a cycle.
C10_ReturnsIffAcyclic ==
    /\ fetched # NoRet => Acyclic(fetched[1].module.name)
    /\ status \in {"exit_api", "RecursionError"} => ~Acyclic(modules[mi].name)

(***************************************************************************)
(* C11                                                                     *)
(***************************************************************************)

\* C11: find_source returns a URL only of a descriptor whose packagetype is
\* 'sdist' and whose python_version is 'source'; an sdist descriptor with
\* another tag is not returned and is not handed to the wheel 'supported'
\* check, so the lookup ends with a URL or with None.
C11_SourceOnlyTaggedSource ==
    ret # NoRet =>
        /\ ret[1].kind = "url" =>
              \E i \in 1..Len(call.module_objs) :
                  /\ call.module_objs[i].url = ret[1].url
                  /\ call.module_objs[i].packagetype = "sdist"
                  /\ call.module_objs[i].python_version = "source"
        /\ wheel_checks(call.module_objs, "sdist") = <<>>
        /\ ret[1].kind \in {"url", "none"}

====
